---------------------------- MODULE Spec2Model ----------------------------
(***************************************************************************)
(* A model of GenshinWidget (src/main.py): the settings store, the         *)
(* start-up validation in GenshinApp.initUI, the polling of the account    *)
(* notes (update_info / update_ui) and the drag-to-move handlers that      *)
(* persist the window position.                                            *)
(*                                                                         *)
(* Settings values are strings; they are modelled as sequences of          *)
(* one-character strings so that int() and str() can be modelled by what   *)
(* they do.  Texts shown in the rows are TLA+ strings.                     *)
(***************************************************************************)
EXTENDS Integers, Sequences, FiniteSets, TLC

(***************************************************************************)
(* Bounds of the model.                                                    *)
(***************************************************************************)
\* update_info invocations of one process that the model follows
MaxAttempts == 3
\* how far (per axis) a drag may take the window from a start-up position
MaxOffset == 1

(***************************************************************************)
(* Program constants.                                                      *)
(***************************************************************************)
\* fallback of window_config.getint('last_x', 100) / ('last_y', 100)
DefaultPos == 100

AuthMissingWarning == "Authentication details are missing in settings.ini"
ConflictWarning ==
    "Both 'word_wrap' and 'fit_window_to_text' cannot be enabled simultaneously."
CheckinUrl ==
    "https://act.hoyolab.com/ys/event/signin-sea-v3/index.html?act_id=e202102251931481"

(***************************************************************************)
(* Python's str(int) and int(str), on sequences of characters.             *)
(***************************************************************************)
DigitChars == <<"0", "1", "2", "3", "4", "5", "6", "7", "8", "9">>

IsDigit(ch) == \E d \in 1..10 : DigitChars[d] = ch

DigitVal(ch) == (CHOOSE d \in 1..10 : DigitChars[d] = ch) - 1

RECURSIVE NatChars(_)
NatChars(n) ==
    IF n < 10 THEN <<DigitChars[n + 1]>>
    ELSE NatChars(n \div 10) \o <<DigitChars[(n % 10) + 1]>>

\* str(n) for an int n
PyStr(n) == IF n < 0 THEN <<"-">> \o NatChars(-n) ELSE NatChars(n)

RECURSIVE LStrip(_)
LStrip(s) == IF s # <<>> /\ s[1] = " " THEN LStrip(Tail(s)) ELSE s

RECURSIVE RStrip(_)
RStrip(s) ==
    IF s # <<>> /\ s[Len(s)] = " " THEN RStrip(SubSeq(s, 1, Len(s) - 1)) ELSE s

Strip(s) == RStrip(LStrip(s))

\* the digits (and underscores) of a literal, after its optional sign
Unsigned(s) ==
    LET t == Strip(s)
    IN  IF t # <<>> /\ t[1] \in {"+", "-"} THEN Tail(t) ELSE t

\* whether int(s) succeeds (base 10)
IsIntLiteral(s) ==
    LET b == Unsigned(s)
    IN  /\ b # <<>>
        /\ IsDigit(b[1])
        /\ IsDigit(b[Len(b)])
        /\ \A i \in 1..Len(b) : IsDigit(b[i]) \/ b[i] = "_"
        /\ \A i \in 1..(Len(b) - 1) : ~(b[i] = "_" /\ b[i + 1] = "_")

RECURSIVE DigitsValue(_, _)
DigitsValue(b, acc) ==
    IF b = <<>> THEN acc
    ELSE IF b[1] = "_" THEN DigitsValue(Tail(b), acc)
    ELSE DigitsValue(Tail(b), 10 * acc + DigitVal(b[1]))

\* int(s), for an s on which it succeeds
PyInt(s) ==
    LET t == Strip(s)
        v == DigitsValue(Unsigned(s), 0)
    IN  IF t[1] = "-" THEN -v ELSE v

\* the characters of s as one string
RECURSIVE Cat(_)
Cat(s) == IF s = <<>> THEN "" ELSE s[1] \o Cat(Tail(s))

\* str(e) of the ValueError that int(s) raises
ValueErrorMsg(s) ==
    "invalid literal for int() with base 10: '" \o Cat(s) \o "'"

(***************************************************************************)
(* configparser sections: functions from the keys present to values.       *)
(***************************************************************************)
\* the value of a missing key read with .get(key)
PyNone == <<"None">>

\* section.get(key, fallback)
Get(section, key, fallback) ==
    IF key \in DOMAIN section THEN section[key] ELSE fallback

\* Python's "not value" for a string or None
Falsy(v) == v = PyNone \/ v = <<>>

\* section.getint(key, fallback) where the conversion succeeds
GetInt(section, key, fallback) ==
    IF key \in DOMAIN section THEN PyInt(section[key]) ELSE fallback

\* whether section.getint(key, fallback) raises ValueError
GetIntRaises(section, key) ==
    key \in DOMAIN section /\ ~IsIntLiteral(section[key])

\* bool_from_str
bool_from_str(value) == value = <<"1">>

\* config.set(section 'Window', key, value)
SetKey(section, key, value) ==
    [k \in DOMAIN section \cup {key} |-> IF k = key THEN value ELSE section[k]]

Without(section, key) == [k \in DOMAIN section \ {key} |-> section[k]]

(***************************************************************************)
(* The inputs: the settings files the program may be started with, what    *)
(* the API client may answer, and where the cursor may be.                 *)
(***************************************************************************)
AuthKeys == {"ltuid_v2", "ltoken_v2", "cookie_token_v2", "account_mid_v2"}

UidInputs == {<<"1", "2">>, <<"1", "a">>}

FullAuth(uid) ==
    [ltuid_v2 |-> uid, ltoken_v2 |-> <<"t">>, cookie_token_v2 |-> <<"c">>,
     account_mid_v2 |-> <<"m">>]

AuthInputs ==
    {FullAuth(uid) : uid \in UidInputs}
    \cup {Without(FullAuth(<<"1", "2">>), k) : k \in AuthKeys}
    \cup {SetKey(FullAuth(<<"1", "2">>), k, <<>>) : k \in AuthKeys}

FlagInputs == {<<"0">>, <<"1">>}

DisplayInputs ==
    LET base == [word_wrap : FlagInputs, fit_window_to_text : FlagInputs,
                 draggable : FlagInputs, show_notes : FlagInputs]
    IN  base \cup {Without(d, "show_notes") : d \in base}

LastXInputs == {<<"-", "1">>, <<"1", "x">>}
LastYInputs == {<<"2", "5">>}

WindowInputs ==
    LET full == [last_x : LastXInputs, last_y : LastYInputs]
    IN  full \cup {Without(w, "last_x") : w \in full}
             \cup {Without(w, "last_y") : w \in full}
             \cup {<<>>}

NoNotes ==
    [current_resin |-> 0, max_resin |-> 0, claimed_commission_reward |-> FALSE,
     current_realm_currency |-> 0]

NotesInputs ==
    {[current_resin |-> 30, max_resin |-> 160,
      claimed_commission_reward |-> TRUE, current_realm_currency |-> 1200],
     [current_resin |-> 160, max_resin |-> 160,
      claimed_commission_reward |-> FALSE, current_realm_currency |-> 0]}

\* what awaiting client.get_notes(uid) may give: the notes, a
\* GenshinException, or any other exception
Outcomes ==
    {[kind |-> "ok", notes |-> n, msg |-> ""] : n \in NotesInputs}
    \cup {[kind |-> "api_error", notes |-> NoNotes,
           msg |-> "[10001] Invalid cookies"]}
    \cup {[kind |-> "error", notes |-> NoNotes,
           msg |-> "Cannot connect to host"]}

\* the places of the cursor at the mouse events
CursorPoints == {<<0, 0>>, <<1, 0>>, <<0, 1>>}

Buttons == {"left", "right"}

XBases == {DefaultPos} \cup {PyInt(v) : v \in {u \in LastXInputs : IsIntLiteral(u)}}
YBases == {DefaultPos} \cup {PyInt(v) : v \in {u \in LastYInputs : IsIntLiteral(u)}}

Near(v, bases) == \E b \in bases : v - b \in (-MaxOffset)..MaxOffset

\* the part of the desktop the model lets the window be dragged over
OnScreen(p) == Near(p[1], XBases) /\ Near(p[2], YBases)

(***************************************************************************)
(* The state.                                                              *)
(***************************************************************************)
VARIABLES
    store,         \* settings.ini: [Display, Auth, Window]
    phase,         \* where the process is
    config,        \* self.config, the ConfigParser in memory
    warning,       \* the text of the warning box shown, "" if none
    winPos,        \* the window's position <<x, y>>
    windowShown,   \* window.show() was called
    clientCreated, \* self.client exists, with its cookies
    pressHandler,  \* what self.mousePressEvent is
    oldPos,        \* self.oldPos, Unset while the attribute does not exist
    timerActive,   \* self.timer is running
    eagerPending,  \* the add_info_labels task is scheduled and has not run
    attempts,      \* update_info invocations of this process
    inflight,      \* the invocations suspended in await client.get_notes
    rows,          \* the items of content_layout, in order
    fitted,        \* adjustSize() has resized the window to its content
    lastResult,    \* what the last finished attempt got, with its number
    shown,         \* the attempt whose signal drew the rows, 0 if none
    closedAt       \* where the previous run's window was when it was closed,
                   \* kept until this run's window is shown; Unset otherwise

vars == <<store, phase, config, warning, winPos, windowShown, clientCreated,
          pressHandler, oldPos, timerActive, eagerPending, attempts, inflight,
          rows, fitted, lastResult, shown, closedAt>>

Unset == <<>>

NoSection == <<>>

NoResult == [id |-> 0, kind |-> "none", notes |-> NoNotes, msg |-> ""]

Init ==
    /\ store \in [Display : DisplayInputs, Auth : AuthInputs, Window : WindowInputs]
    /\ phase = "idle"
    /\ config = [Display |-> NoSection, Auth |-> NoSection, Window |-> NoSection]
    /\ warning = ""
    /\ winPos = <<0, 0>>
    /\ windowShown = FALSE
    /\ clientCreated = FALSE
    /\ pressHandler = "default"
    /\ oldPos = Unset
    /\ timerActive = FALSE
    /\ eagerPending = FALSE
    /\ attempts = 0
    /\ inflight = {}
    /\ rows = <<>>
    /\ fitted = FALSE
    /\ lastResult = NoResult
    /\ shown = 0
    /\ closedAt = Unset


(***************************************************************************)
(* Start-up: __main__ and GenshinApp.initUI.                               *)
(***************************************************************************)
\* the user starts the program: the first time, or again after the window
\* was closed.  initUI reads settings.ini into self.config.
Launch ==
    /\ phase \in {"idle", "closed"}
    /\ phase' = "loaded"
    /\ config' = store
    /\ warning' = ""
    /\ winPos' = <<0, 0>>
    /\ windowShown' = FALSE
    /\ clientCreated' = FALSE
    /\ pressHandler' = "default"
    /\ oldPos' = Unset
    /\ timerActive' = FALSE
    /\ eagerPending' = FALSE
    /\ attempts' = 0
    /\ inflight' = {}
    /\ rows' = <<>>
    /\ fitted' = FALSE
    /\ lastResult' = NoResult
    /\ shown' = 0
    /\ UNCHANGED <<store, closedAt>>

\* a check for auth details that only looks whether the keys exist
AuthMissingNoneOnly(auth) ==
    \/ Get(auth, "ltuid_v2", PyNone) = PyNone
    \/ Get(auth, "ltoken_v2", PyNone) = PyNone
    \/ Get(auth, "cookie_token_v2", PyNone) = PyNone
    \/ Get(auth, "account_mid_v2", PyNone) = PyNone

\* the condition of the check for auth details
AuthMissing(auth) ==
    \/ Falsy(Get(auth, "ltuid_v2", PyNone))
    \/ Falsy(Get(auth, "ltoken_v2", PyNone))
    \/ Falsy(Get(auth, "cookie_token_v2", PyNone))
    \/ Falsy(Get(auth, "account_mid_v2", PyNone))

\* a conflict check that reads the wrong second flag
FlagsConflictWrongKey(display) ==
    bool_from_str(display["word_wrap"]) /\ bool_from_str(display["draggable"])

\* the condition of the word_wrap / fit_window_to_text check
FlagsConflict(display) ==
    bool_from_str(display["word_wrap"]) /\ bool_from_str(display["fit_window_to_text"])

\* show_warning(message); sys.exit()
WarnAndExit(message) ==
    /\ warning' = message
    /\ phase' = "terminated"

CheckAuth ==
    /\ phase = "loaded"
    /\ IF AuthMissing(config["Auth"])
       THEN WarnAndExit(AuthMissingWarning)
       ELSE phase' = "auth_ok" /\ UNCHANGED warning
    /\ UNCHANGED <<store, config, winPos, windowShown, clientCreated,
                   pressHandler, oldPos, timerActive, eagerPending, attempts,
                   inflight, rows, fitted, lastResult, shown, closedAt>>

CheckFlags ==
    /\ phase = "auth_ok"
    /\ IF FlagsConflict(config["Display"])
       THEN WarnAndExit(ConflictWarning)
       ELSE phase' = "validated" /\ UNCHANGED warning
    /\ UNCHANGED <<store, config, winPos, windowShown, clientCreated,
                   pressHandler, oldPos, timerActive, eagerPending, attempts,
                   inflight, rows, fitted, lastResult, shown, closedAt>>

\* a restore of the position that falls back to 0
InitialPosFallbackZero(window) ==
    <<GetInt(window, "last_x", 0), GetInt(window, "last_y", 0)>>

\* the position initUI moves the window to
InitialPos(window) ==
    <<GetInt(window, "last_x", DefaultPos), GetInt(window, "last_y", DefaultPos)>>

\* an initUI that installs startMove whatever the draggable flag says
InstalledPressHandlerAlways(display) == "startMove"

\* the handler initUI leaves in self.mousePressEvent
InstalledPressHandler(display) ==
    IF bool_from_str(display["draggable"]) THEN "startMove" ELSE "default"

\* the rest of initUI: the window is placed, the client created, the first
\* update scheduled and the timer started.  A last_x or last_y that is no
\* integer makes getint raise, and the process dies on that exception.
Setup ==
    /\ phase = "validated"
    /\ IF GetIntRaises(config["Window"], "last_x")
          \/ GetIntRaises(config["Window"], "last_y")
       THEN /\ phase' = "crashed"
            /\ UNCHANGED <<winPos, clientCreated, pressHandler, eagerPending,
                           timerActive>>
       ELSE /\ phase' = "constructed"
            /\ winPos' = InitialPos(config["Window"])
            /\ clientCreated' = TRUE
            /\ pressHandler' = InstalledPressHandler(config["Display"])
            /\ eagerPending' = TRUE
            /\ timerActive' = TRUE
    /\ UNCHANGED <<store, config, warning, windowShown, oldPos, attempts,
                   inflight, rows, fitted, lastResult, shown, closedAt>>

\* window.show(); loop.run_forever()
Show ==
    /\ phase = "constructed"
    /\ phase' = "running"
    /\ windowShown' = TRUE
    /\ closedAt' = Unset
    /\ UNCHANGED <<store, config, warning, winPos, clientCreated, pressHandler,
                   oldPos, timerActive, eagerPending, attempts, inflight, rows,
                   fitted, lastResult, shown>>

(***************************************************************************)
(* update_ui: the rows are taken out of the layout and three new ones put  *)
(* in.                                                                     *)
(***************************************************************************)
RECURSIVE ClearLayout(_)
ClearLayout(items) ==
    IF Len(items) > 0 THEN ClearLayout(Tail(items)) ELSE items

Row(icon, text, url) == [icon |-> icon, text |-> text, url |-> url]

\* an update_ui that does not take the previous rows out
update_ui_append(items, texts) ==
    items
        \o <<Row("resin.png", texts[1], ""),
             Row("checkin.png", texts[2], CheckinUrl),
             Row("realmCurr.png", texts[3], "")>>

update_ui(items, texts) ==
    ClearLayout(items)
        \o <<Row("resin.png", texts[1], ""),
             Row("checkin.png", texts[2], CheckinUrl),
             Row("realmCurr.png", texts[3], "")>>

\* str(b) for a bool b
PyBoolStr(b) == IF b THEN "True" ELSE "False"

\* the three texts update_info emits for the notes it got
NotesTexts(n) ==
    <<"Resin: " \o Cat(PyStr(n.current_resin)) \o "/" \o Cat(PyStr(n.max_resin)),
      "Daily Reward Claimed: " \o PyBoolStr(n.claimed_commission_reward),
      "Realm Currency: " \o Cat(PyStr(n.current_realm_currency)) \o "/2400">>

\* a handler of GenshinException that leaves the message out
ApiErrorTextsWithoutMessage(msg) == <<"Error fetching notes", "", "">>

\* what the handler of GenshinException emits
ApiErrorTexts(msg) == <<"Error fetching notes: " \o msg, "", "">>

\* what the handler of Exception emits
OtherErrorTexts(msg) == <<"Error fetching data: " \o msg, "", "">>

EmitTexts(outcome) ==
    CASE outcome.kind = "ok" -> NotesTexts(outcome.notes)
      [] outcome.kind = "api_error" -> ApiErrorTexts(outcome.msg)
      [] OTHER -> OtherErrorTexts(outcome.msg)

\* update_ui_signal.emit(...) from attempt id: update_ui runs at once
Emit(id, texts) ==
    /\ rows' = update_ui(rows, texts)
    /\ fitted' = (fitted \/ bool_from_str(config["Display"]["fit_window_to_text"]))
    /\ shown' = id

(***************************************************************************)
(* update_info, up to its await and from it.                               *)
(***************************************************************************)
\* whether update_info goes on to call client.get_notes
ShowNotes(display) == bool_from_str(Get(display, "show_notes", <<"0">>))

UpdateInfoStart ==
    LET id == attempts + 1
        uidText == config["Auth"]["ltuid_v2"]
    IN  /\ attempts' = id
        /\ IF ~IsIntLiteral(uidText)
           THEN /\ Emit(id, OtherErrorTexts(ValueErrorMsg(uidText)))
                /\ lastResult' = [id |-> id, kind |-> "error", notes |-> NoNotes,
                                  msg |-> ValueErrorMsg(uidText)]
                /\ UNCHANGED inflight
           ELSE IF ShowNotes(config["Display"])
           THEN /\ inflight' = inflight \cup {id}
                /\ UNCHANGED <<rows, fitted, shown, lastResult>>
           ELSE UNCHANGED <<inflight, rows, fitted, shown, lastResult>>

\* the task scheduled by initUI (add_info_labels) runs update_info
EagerStart ==
    /\ phase = "running"
    /\ eagerPending
    /\ eagerPending' = FALSE
    /\ UpdateInfoStart
    /\ UNCHANGED <<store, phase, config, warning, winPos, windowShown,
                   clientCreated, pressHandler, oldPos, timerActive, closedAt>>

\* the timer's timeout runs update_info; its first timeout comes 60 s after
\* the start, after the scheduled task has run
Tick ==
    /\ phase = "running"
    /\ timerActive
    /\ ~eagerPending
    /\ attempts < MaxAttempts
    /\ UpdateInfoStart
    /\ UNCHANGED <<store, phase, config, warning, winPos, windowShown,
                   clientCreated, pressHandler, oldPos, timerActive,
                   eagerPending, closedAt>>

\* a completion that stops the timer when the fetch failed
CompleteStoppingTimerOnError(id, outcome) ==
    /\ phase = "running"
    /\ id \in inflight
    /\ inflight' = inflight \ {id}
    /\ Emit(id, EmitTexts(outcome))
    /\ lastResult' = [id |-> id, kind |-> outcome.kind, notes |-> outcome.notes,
                      msg |-> outcome.msg]
    /\ timerActive' = (timerActive /\ outcome.kind = "ok")
    /\ UNCHANGED <<store, phase, config, warning, winPos, windowShown,
                   clientCreated, pressHandler, oldPos, eagerPending, attempts,
                   closedAt>>

\* await client.get_notes(uid) of attempt id ends with outcome
Complete(id, outcome) ==
    /\ phase = "running"
    /\ id \in inflight
    /\ inflight' = inflight \ {id}
    /\ Emit(id, EmitTexts(outcome))
    /\ lastResult' = [id |-> id, kind |-> outcome.kind, notes |-> outcome.notes,
                      msg |-> outcome.msg]
    /\ UNCHANGED <<store, phase, config, warning, winPos, windowShown,
                   clientCreated, pressHandler, oldPos, timerActive,
                   eagerPending, attempts, closedAt>>

(***************************************************************************)
(* The mouse and the close event.                                          *)
(***************************************************************************)
\* the process is gone: its window, its timer and its tasks with it
ProcessGone ==
    /\ windowShown' = FALSE
    /\ timerActive' = FALSE
    /\ eagerPending' = FALSE
    /\ inflight' = {}

\* config.set('Window', 'last_x', str(x)); config.set('Window', 'last_y', str(y))
WithPosition(cfg, pos) ==
    [cfg EXCEPT !["Window"] =
        SetKey(SetKey(@, "last_x", PyStr(pos[1])), "last_y", PyStr(pos[2]))]

\* self.oldPos after a press of button at p
startMove(old, button, p) == IF button = "left" THEN p ELSE old

MousePress(button, p) ==
    /\ phase = "running"
    /\ oldPos' = IF pressHandler = "startMove" THEN startMove(oldPos, button, p)
                 ELSE oldPos
    /\ UNCHANGED <<store, phase, config, warning, winPos, windowShown,
                   clientCreated, pressHandler, timerActive, eagerPending,
                   attempts, inflight, rows, fitted, lastResult, shown, closedAt>>

\* where mouseMoveEvent moves the window to
MovedPos(pos, old, p) == <<pos[1] + (p[1] - old[1]), pos[2] + (p[2] - old[2])>>

\* a mouseMoveEvent that writes the file before it sets the new position
StoreAfterMoveStale(cfg, pos) == cfg

\* what mouseMoveEvent leaves in settings.ini
StoreAfterMove(cfg, pos) == WithPosition(cfg, pos)

\* mouseMoveEvent with the cursor at p.  Without self.oldPos it raises
\* AttributeError and changes nothing; whether PyQt then aborts the process
\* (fatal) depends on the PyQt version and the exception hook.
MouseMove(p, fatal) ==
    /\ phase = "running"
    /\ IF oldPos = Unset
       THEN /\ IF fatal
               THEN phase' = "crashed" /\ ProcessGone
               ELSE UNCHANGED <<phase, windowShown, timerActive, eagerPending,
                                inflight>>
            /\ UNCHANGED <<store, config, winPos, oldPos>>
       ELSE /\ ~fatal
            /\ OnScreen(MovedPos(winPos, oldPos, p))
            /\ winPos' = MovedPos(winPos, oldPos, p)
            /\ oldPos' = p
            /\ config' = WithPosition(config, winPos')
            /\ store' = StoreAfterMove(config, winPos')
            /\ UNCHANGED <<phase, windowShown, timerActive, eagerPending, inflight>>
    /\ UNCHANGED <<warning, clientCreated, pressHandler, attempts, rows, fitted,
                   lastResult, shown, closedAt>>

\* what closeEvent leaves in settings.ini
StoreAfterClose(cfg, pos) == WithPosition(cfg, pos)

\* closeEvent: the position is saved and the window closes; with its last
\* window closed the application quits
Close ==
    /\ phase = "running"
    /\ phase' = "closed"
    /\ config' = WithPosition(config, winPos)
    /\ store' = StoreAfterClose(config, winPos)
    /\ closedAt' = winPos
    /\ ProcessGone
    /\ UNCHANGED <<warning, winPos, clientCreated, pressHandler, oldPos,
                   attempts, rows, fitted, lastResult, shown>>

Next ==
    \/ Launch
    \/ CheckAuth
    \/ CheckFlags
    \/ Setup
    \/ Show
    \/ EagerStart
    \/ Tick
    \/ \E id \in 1..MaxAttempts, outcome \in Outcomes : Complete(id, outcome)
    \/ \E button \in Buttons, p \in CursorPoints : MousePress(button, p)
    \/ \E p \in CursorPoints, fatal \in BOOLEAN : MouseMove(p, fatal)
    \/ Close

Spec == Init /\ [][Next]_vars

\* the event loop runs the task that initUI scheduled, and the timer keeps
\* firing
\* FairSpec follows the program from a settings.ini that holds no saved
\* position yet (the Window section is empty), with every Display and Auth
\* input
FairInit == Init /\ store["Window"] = NoSection

FairSpec ==
    /\ FairInit
    /\ [][Next]_vars
    /\ WF_vars(EagerStart \/ Tick)

(***************************************************************************)
(* Properties.                                                             *)
(***************************************************************************)
RowTexts(items) == [i \in 1..Len(items) |-> items[i].text]

ErrorKinds == {"api_error", "error"}

ErrorPrefixes == {"Error fetching notes: ", "Error fetching data: "}

\* the decimal text of the position p, as two strings
Decimal(p) == <<ToString(p[1]), ToString(p[2])>>

\* settings.ini holds the position p
PersistedIs(st, p) ==
    /\ {"last_x", "last_y"} \subseteq DOMAIN st["Window"]
    /\ <<Cat(st["Window"]["last_x"]), Cat(st["Window"]["last_y"])>> = Decimal(p)

AuthIncomplete(st) ==
    \E k \in AuthKeys : k \notin DOMAIN st["Auth"] \/ Len(st["Auth"][k]) = 0

BothFlagsOn(st) ==
    /\ st["Display"]["word_wrap"] = <<"1">>
    /\ st["Display"]["fit_window_to_text"] = <<"1">>

NotesEnabled(st) ==
    "show_notes" \in DOMAIN st["Display"] /\ st["Display"]["show_notes"] = <<"1">>

DraggableOn(st) == st["Display"]["draggable"] = <<"1">>

NothingStarted ==
    /\ ~windowShown
    /\ ~clientCreated
    /\ ~timerActive
    /\ ~eagerPending
    /\ attempts = 0
    /\ inflight = {}
    /\ rows = <<>>

\* C1: whenever the last finished attempt was a successful fetch of notes
\* c/m, b, r, the content layout holds exactly three rows, in order
\* "Resin: c/m", "Daily Reward Claimed: b", "Realm Currency: r/2400",
\* however many renders came before (30/160, True, 1200 gives the texts of
\* the spec's example).
C1_SuccessRendersThreeRows ==
    lastResult.kind = "ok" =>
        LET n == lastResult.notes
        IN  /\ Len(rows) = 3
            /\ RowTexts(rows) =
                 <<"Resin: " \o ToString(n.current_resin) \o "/"
                       \o ToString(n.max_resin),
                   "Daily Reward Claimed: "
                       \o (IF n.claimed_commission_reward THEN "True" ELSE "False"),
                   "Realm Currency: " \o ToString(n.current_realm_currency)
                       \o "/2400">>
            /\ (n = [current_resin |-> 30, max_resin |-> 160,
                     claimed_commission_reward |-> TRUE,
                     current_realm_currency |-> 1200]
                  => RowTexts(rows) = <<"Resin: 30/160",
                                        "Daily Reward Claimed: True",
                                        "Realm Currency: 1200/2400">>)

\* the third attempt of a process fetched 30/160, True, 1200 after two
\* earlier attempts had drawn their rows
C1_Witness ==
    /\ lastResult.kind = "ok"
    /\ lastResult.id = 3
    /\ lastResult.notes.current_resin = 30
    /\ inflight = {}
    /\ shown = 3

C2_ErrorRowsShown ==
    lastResult.kind \in ErrorKinds =>
        /\ Len(rows) = 3
        /\ \E prefix \in ErrorPrefixes : rows[1].text = prefix \o lastResult.msg
        /\ rows[2].text = ""
        /\ rows[3].text = ""

C2_FailureKeepsRunning ==
    (lastResult' # lastResult /\ lastResult'.kind \in ErrorKinds)
        => phase' = "running"

\* C2: whenever the last finished attempt failed (GenshinException, any
\* other exception, a non-numeric account id), there are exactly three
\* rows, the first with the error message after its prefix, the second and
\* third blank; and the step in which an attempt fails leaves the process
\* running.
C2_FailureRendersError ==
    []C2_ErrorRowsShown /\ [][C2_FailureKeepsRunning]_vars

\* a second or later attempt failed with the client's API error
C2_Witness ==
    /\ phase = "running"
    /\ lastResult.kind = "api_error"
    /\ lastResult.id >= 2
    /\ shown = lastResult.id

C3_OneAttemptPerTrigger ==
    (phase = "running" /\ phase' = "running" /\ attempts' # attempts)
        => /\ attempts' = attempts + 1
           /\ EagerStart \/ Tick

C3_TimerKeepsRunning ==
    /\ phase = "running" => timerActive
    /\ (phase = "running" /\ ~eagerPending /\ attempts < MaxAttempts)
          => ENABLED Tick

C3_EagerFirst == (phase = "running" /\ ~eagerPending) => attempts >= 1

C3_NextAttemptFollows ==
    (phase = "running" /\ attempts < MaxAttempts)
        ~> (attempts = MaxAttempts \/ phase # "running")

\* C3: while the window runs, the number of update_info invocations changes
\* only by one at a time and only in the scheduled start-up task or a timer
\* tick; the start-up task runs before any tick; the timer stays active and
\* a tick is possible whatever earlier attempts gave; and from every state
\* of the running window, whether the attempts so far failed or not, the
\* further attempts follow (up to MaxAttempts, unless the window is closed
\* or the process dies).
C3_AttemptsFollowTriggers ==
    /\ [][C3_OneAttemptPerTrigger]_vars
    /\ []C3_TimerKeepsRunning
    /\ []C3_EagerFirst
    /\ C3_NextAttemptFollows

\* the first attempt failed and the next tick has started a second one
C3_Witness ==
    /\ phase = "running"
    /\ lastResult.kind \in ErrorKinds
    /\ lastResult.id = 1
    /\ attempts = 2
    /\ inflight = {2}
    /\ timerActive

\* C4: when show_notes is not "1" (or absent), get_notes is never called,
\* no update signal is emitted and no rows are ever created.
C4_GateBlocksEverything ==
    ~NotesEnabled(store) => (inflight = {} /\ shown = 0 /\ rows = <<>>)

C5_NothingStartsWithoutAuth ==
    (AuthIncomplete(store) /\ phase \notin {"idle", "loaded"})
        => /\ phase = "terminated"
           /\ warning = AuthMissingWarning
           /\ NothingStarted

C5_TerminatedStays == phase = "terminated" => UNCHANGED vars

\* C5: when one of the four Auth fields is missing or empty, the start-up
\* shows the authentication warning and terminates with no window shown, no
\* client, no fetch scheduled and no timer; nothing changes from the
\* terminated state.
C5_MissingAuthTerminates ==
    []C5_NothingStartsWithoutAuth /\ [][C5_TerminatedStays]_vars

\* the start-up ended on an empty account_mid_v2
C5_Witness ==
    /\ phase = "terminated"
    /\ warning = AuthMissingWarning
    /\ "account_mid_v2" \in DOMAIN store["Auth"]
    /\ store["Auth"]["account_mid_v2"] = <<>>

\* C6: with all Auth fields present and word_wrap and fit_window_to_text
\* both "1", the start-up shows the conflict warning and terminates with no
\* window shown, no fetch scheduled and no timer; and whenever the window
\* runs, at most one of the two flags is enabled.
C6_ConflictTerminates ==
    /\ (BothFlagsOn(store) /\ ~AuthIncomplete(store)
          /\ phase \notin {"idle", "loaded", "auth_ok"})
         => /\ phase = "terminated"
            /\ warning = ConflictWarning
            /\ NothingStarted
    /\ phase \in {"validated", "constructed", "running"} => ~BothFlagsOn(store)

\* the start-up ended on the conflict of the two flags
C6_Witness ==
    /\ phase = "terminated"
    /\ warning = ConflictWarning
    /\ BothFlagsOn(store)

C7_MoveAndClosePersist ==
    /\ (phase = "running" /\ oldPos # Unset
          /\ \E p \in CursorPoints : MouseMove(p, FALSE))
         => /\ winPos' = <<winPos[1] + (oldPos'[1] - oldPos[1]),
                           winPos[2] + (oldPos'[2] - oldPos[2])>>
            /\ PersistedIs(store', winPos')
    /\ Close => (winPos' = winPos /\ PersistedIs(store', winPos'))

C7_SavedKeysMatch ==
    /\ "last_x" \in DOMAIN store["Window"]
          => Cat(store["Window"]["last_x"]) = ToString(winPos[1])
    /\ "last_y" \in DOMAIN store["Window"]
          => Cat(store["Window"]["last_y"]) = ToString(winPos[2])

\* C7: a mouse-move event that finds a drag origin moves the window by the
\* cursor's delta from that origin and leaves the new position in
\* settings.ini; the close event leaves the position in settings.ini; while
\* the window is closed settings.ini holds the position it had; and while
\* the window runs, each of last_x, last_y that settings.ini holds is the
\* window's coordinate.
C7_PositionPersisted ==
    /\ [][C7_MoveAndClosePersist]_vars
    /\ [](phase = "closed" => PersistedIs(store, winPos))
    /\ [](phase = "running" => C7_SavedKeysMatch)

\* the window was dragged from (100, 100) to (99, 101) and closed there
C7_Witness ==
    /\ phase = "closed"
    /\ winPos = <<99, 101>>
    /\ oldPos # Unset
    /\ store["Window"]["last_x"] = <<"9", "9">>
    /\ store["Window"]["last_y"] = <<"1", "0", "1">>

\* C8: when the window has been placed at start-up, its x is the last_x of
\* settings.ini, 100 if the key is missing, and its y likewise from last_y;
\* and a window that was closed at (x, y) is placed at (x, y) by the next
\* start.
C8_InitialPosition ==
    phase = "constructed" =>
        /\ IF "last_x" \in DOMAIN store["Window"]
           THEN Cat(store["Window"]["last_x"]) = ToString(winPos[1])
           ELSE winPos[1] = 100
        /\ IF "last_y" \in DOMAIN store["Window"]
           THEN Cat(store["Window"]["last_y"]) = ToString(winPos[2])
           ELSE winPos[2] = 100
        /\ closedAt # Unset => winPos = closedAt

\* a window closed at (-2, 100) has been placed there by the next start
C8_Witness ==
    /\ phase = "constructed"
    /\ closedAt = <<-2, 100>>
    /\ winPos = <<-2, 100>>

Max(S) == CHOOSE m \in S : \A k \in S : k <= m

\* C9: once an attempt has drawn the rows, the rows are those of the most
\* recently started attempt among the finished ones.
C9_LatestAttemptShown ==
    (phase = "running" /\ shown # 0)
        => shown = Max((1..attempts) \ inflight)

C10_NoDragOrigin ==
    (~DraggableOn(store) /\ phase \in {"constructed", "running", "crashed", "closed"})
        => (oldPos = Unset /\ pressHandler = "default")

C10_MoveChangesNothing ==
    (~DraggableOn(store) /\ \E p \in CursorPoints, fatal \in BOOLEAN : MouseMove(p, fatal))
        => (winPos' = winPos /\ store' = store)

\* C10: when draggable is not "1", no mouse press records a drag origin and
\* every mouse-move event leaves the window's position and settings.ini
\* unchanged.
C10_NotDraggable ==
    []C10_NoDragOrigin /\ [][C10_MoveChangesNothing]_vars

\* with draggable "0", a mouse-move event has raised and ended the process
C10_Witness ==
    /\ ~DraggableOn(store)
    /\ phase = "crashed"
    /\ clientCreated
    /\ winPos = <<100, 100>>
    /\ store["Window"] = <<>>

=============================================================================
